---- MODULE Spec2Model ----
(***************************************************************************)
(* A model of rust_state: the Context (src/src/context.rs), which owns the *)
(* root state and a queue of pending state changes, and the Path           *)
(* combinators used to navigate the state (src/src/vec.rs, src/src/map.rs, *)
(* src/src/array.rs, src/src/option.rs, src/src/boxed.rs,                  *)
(* src/src/as_ref.rs, src/src/downcast.rs, src/src/manual.rs and the       *)
(* derive macro in src/macros/src/lib.rs).                                 *)
(*                                                                         *)
(* The root state is an instance of a #[derive(RustState)] #[state_root]   *)
(* struct in the shape of the crate's doc tests:                           *)
(*     struct MyState { value: u32,                                        *)
(*                      items: Vec<TestItem>,       TestItem { id, val }   *)
(*                      map:   HashMap<u32, MapValue> }                    *)
(* A reference (&T / &mut T) into the state is modelled by the place it    *)
(* designates: the sequence of fields, vector slots and map entries that   *)
(* leads from the root to it.                                              *)
(***************************************************************************)
EXTENDS Integers, Sequences, FiniteSets, TLC

VARIABLES
    state,          \* Context::state
    state_changes,  \* Context::state_changes, the queued closures in push order
    writes,         \* number of write calls made so far (bounds the run)
    last_apply,     \* history: the state and the queue the latest apply() started from
    returned        \* the latest call of a read method: its selector and what it returned

vars == <<state, state_changes, writes, last_apply, returned>>

\* The number of write calls in one run.
MaxWrites == 3

(***************************************************************************)
(* Option<T>                                                               *)
(***************************************************************************)
None == [some |-> FALSE, ref |-> <<>>]

Some(x) == [some |-> TRUE, ref |-> x]

(***************************************************************************)
(* Places inside the state tree (what a reference designates).             *)
(***************************************************************************)
Field(name) == [kind |-> "field", name |-> name, n |-> 0]

\* the i-th slot of a Vec, counted from 1 as TLA+ sequences are
Elem(i) == [kind |-> "elem", name |-> "", n |-> i]

\* the entry of a HashMap stored under key k
Entry(k) == [kind |-> "entry", name |-> "", n |-> k]

\* What a Box points to.  A Box<T> is the 1-tuple of its pointee; a Box<dyn Any>
\* is the pair of its pointee and the TypeId of the pointee.
Pointee == [kind |-> "pointee", name |-> "", n |-> 1]

\* The payload of an Option that is Some.  An Option<T> is the empty tuple (None)
\* or the 1-tuple of its payload.
Payload == [kind |-> "payload", name |-> "", n |-> 1]

\* A selector value itself, holding v: what &self designates in Selector::select.
Self(v) == [kind |-> "self", name |-> "", n |-> v]

RECURSIVE ReadAt(_, _)
\* The value a reference designates: *reference.
ReadAt(v, loc) ==
    IF loc = <<>> THEN v
    ELSE LET st == Head(loc)
         IN  ReadAt(CASE st.kind = "field" -> v[st.name]
                      [] st.kind = "self" -> st.n
                      [] OTHER -> v[st.n],
                    Tail(loc))

RECURSIVE WriteAt(_, _, _)
\* Mutant of WriteAt: a write into one slot of a vector goes into every slot
\* (iter_mut().for_each).
WriteAtEverySlot(v, loc, new) ==
    IF loc = <<>> THEN new
    ELSE LET st == Head(loc)
         IN  IF st.kind = "field"
             THEN [v EXCEPT ![st.name] = WriteAt(v[st.name], Tail(loc), new)]
             ELSE IF st.kind = "elem"
             THEN [k \in 1..Len(v) |-> WriteAt(v[k], Tail(loc), new)]
             ELSE [v EXCEPT ![st.n] = WriteAt(v[st.n], Tail(loc), new)]

\* The state after *reference = new through a mutable reference.
WriteAt(v, loc, new) ==
    IF loc = <<>> THEN new
    ELSE LET st == Head(loc)
         IN  IF st.kind = "field"
             THEN [v EXCEPT ![st.name] = WriteAt(v[st.name], Tail(loc), new)]
             ELSE [v EXCEPT ![st.n] = WriteAt(v[st.n], Tail(loc), new)]

(***************************************************************************)
(* Paths.  A path is the chain of combinators it was built with, innermost *)
(* first; the empty chain is the root path MyState::path().                *)
(***************************************************************************)
path == <<>>

field(p, name) == Append(p, [op |-> "field", name |-> name, arg |-> 0])

lookup(p, id) == Append(p, [op |-> "vec_lookup", name |-> "", arg |-> id])

index(p, i) == Append(p, [op |-> "vec_index", name |-> "", arg |-> i])

map_lookup(p, id) == Append(p, [op |-> "map_lookup", name |-> "", arg |-> id])

array_index(p, i) == Append(p, [op |-> "array_index", name |-> "", arg |-> i])

unwrapped(p) == Append(p, [op |-> "unwrapped", name |-> "", arg |-> 0])

unboxed(p) == Append(p, [op |-> "unboxed", name |-> "", arg |-> 0])

path_as_ref(p) == Append(p, [op |-> "path_as_ref", name |-> "", arg |-> 0])

\* downcast::<To>()
downcast(p, To) == Append(p, [op |-> "downcast", name |-> To, arg |-> 0])

manually_asserted(p) == Append(p, [op |-> "manually_asserted", name |-> "", arg |-> 0])

Front(s) == SubSeq(s, 1, Len(s) - 1)

\* Mutant of IterFind: the predicate is not tested (iter().next()).
IterFindAny(vec, id, i) == IF i > Len(vec) THEN 0 ELSE i

RECURSIVE IterFind(_, _, _)
\* vec.iter().find(|e| e.get_id() == id), scanning from slot i: the slot found, or 0.
IterFind(vec, id, i) ==
    IF i > Len(vec) THEN 0
    ELSE IF vec[i].id = id THEN i
    ELSE IterFind(vec, id, i + 1)

\* Mutant of IterMutFind: the last item with the id (iter_mut().rfind).
IterMutFindLast(vec, id, i) ==
    LET found == {k \in i..Len(vec) : vec[k].id = id}
    IN  IF found = {} THEN 0 ELSE CHOOSE k \in found : \A j \in found : j <= k

RECURSIVE IterMutFind(_, _, _)
\* vec.iter_mut().find(|e| e.get_id() == id), scanning from slot i: the slot found, or 0.
IterMutFind(vec, id, i) ==
    IF i > Len(vec) THEN 0
    ELSE IF vec[i].id = id THEN i
    ELSE IterMutFind(vec, id, i + 1)

\* VecLookup::follow applied to the vector found at place loc.
VecLookupFollow(s, loc, id) ==
    LET i == IterFind(ReadAt(s, loc), id, 1)
    IN  IF i = 0 THEN None ELSE Some(Append(loc, Elem(i)))

\* VecLookup::follow_mut applied to the vector found at place loc.
VecLookupFollowMut(s, loc, id) ==
    LET i == IterMutFind(ReadAt(s, loc), id, 1)
    IN  IF i = 0 THEN None ELSE Some(Append(loc, Elem(i)))

\* Mutant of VecIndexFollow: the bound is off by one (index <= len).
VecIndexFollowInclusive(s, loc, i) ==
    IF i <= Len(ReadAt(s, loc)) THEN Some(Append(loc, Elem(i + 1))) ELSE None

\* VecIndex::follow / follow_mut: Vec::get(index) / get_mut(index), index from 0.
VecIndexFollow(s, loc, i) ==
    IF i < Len(ReadAt(s, loc)) THEN Some(Append(loc, Elem(i + 1))) ELSE None

\* Mutant of MapLookupFollow: the key is not looked at (values().next()).
MapLookupFollowAnyKey(s, loc, id) ==
    LET map == ReadAt(s, loc)
    IN  IF DOMAIN map # {}
        THEN Some(Append(loc, Entry(CHOOSE k \in DOMAIN map : TRUE)))
        ELSE None

\* MapLookup::follow / follow_mut: HashMap::get(&id) / get_mut(&id).
MapLookupFollow(s, loc, id) ==
    IF id \in DOMAIN ReadAt(s, loc) THEN Some(Append(loc, Entry(id))) ELSE None

\* ArrayLookup::follow / follow_mut: <[Item]>::get(index) / get_mut(index).
ArrayLookupFollow(s, loc, i) ==
    IF i < Len(ReadAt(s, loc)) THEN Some(Append(loc, Elem(i + 1))) ELSE None

\* OptionUnwrapped::follow / follow_mut: and_then(Option::as_ref) / (Option::as_mut).
OptionUnwrappedFollow(s, loc) ==
    IF Len(ReadAt(s, loc)) = 0 THEN None ELSE Some(Append(loc, Payload))

\* Unboxed::follow / follow_mut: map(|inner| &**inner) / (|inner| &mut **inner).
UnboxedFollow(s, loc) == Some(Append(loc, Pointee))

\* AsRefPath::follow / follow_mut for Inner = Box<T>: map(|inner| inner.as_ref()) /
\* (|inner| inner.as_mut()), which Box<T> answers with its pointee.
AsRefPathFollow(s, loc) == Some(Append(loc, Pointee))

\* DowncastPath::follow / follow_mut: and_then(|any| any.downcast_ref::<To>()) /
\* (downcast_mut): the pointee where its TypeId is that of To.
DowncastPathFollow(s, loc, To) ==
    IF ReadAt(s, loc)[2] = To THEN Some(Append(loc, Pointee)) ELSE None

\* Mutant of VecLookupSelect: the last item with the id (iter().rfind).
VecLookupSelectLast(s, loc, id) ==
    LET vec == ReadAt(s, loc)
        found == {i \in 1..Len(vec) : vec[i].id = id}
    IN  IF found = {} THEN None
        ELSE Some(Append(loc, Elem(CHOOSE i \in found : \A j \in found : j <= i)))

\* VecLookup::select applied to the vector found at place loc.
VecLookupSelect(s, loc, id) ==
    LET i == IterFind(ReadAt(s, loc), id, 1)
    IN  IF i = 0 THEN None ELSE Some(Append(loc, Elem(i)))

\* The generated field accessor's follow / follow_mut:
\* Some(&self.path.follow(state)?.field) / Some(&mut self.path.follow_mut(state)?.field).
FieldFollow(s, loc, name) == Some(Append(loc, Field(name)))

\* Mutant of RootFollow: the root path does not resolve.
RootFollowNone(s) == None

\* The generated root path's follow / follow_mut / select: Some(state).
RootFollow(s) == Some(<<>>)

\* The body of a combinator's follow, applied to the place loc that the path it
\* wraps leads to.
FollowStep(step, s, loc) ==
    CASE step.op = "field" -> FieldFollow(s, loc, step.name)
      [] step.op = "vec_lookup" -> VecLookupFollow(s, loc, step.arg)
      [] step.op = "vec_index" -> VecIndexFollow(s, loc, step.arg)
      [] step.op = "map_lookup" -> MapLookupFollow(s, loc, step.arg)
      [] step.op = "array_index" -> ArrayLookupFollow(s, loc, step.arg)
      [] step.op = "unwrapped" -> OptionUnwrappedFollow(s, loc)
      [] step.op = "unboxed" -> UnboxedFollow(s, loc)
      [] step.op = "path_as_ref" -> AsRefPathFollow(s, loc)
      [] step.op = "downcast" -> DowncastPathFollow(s, loc, step.name)
      [] step.op = "manually_asserted" -> Some(loc)

\* The body of a combinator's follow_mut, applied to the place loc that the path
\* it wraps leads to.
FollowMutStep(step, s, loc) ==
    CASE step.op = "field" -> FieldFollow(s, loc, step.name)
      [] step.op = "vec_lookup" -> VecLookupFollowMut(s, loc, step.arg)
      [] step.op = "vec_index" -> VecIndexFollow(s, loc, step.arg)
      [] step.op = "map_lookup" -> MapLookupFollow(s, loc, step.arg)
      [] step.op = "array_index" -> ArrayLookupFollow(s, loc, step.arg)
      [] step.op = "unwrapped" -> OptionUnwrappedFollow(s, loc)
      [] step.op = "unboxed" -> UnboxedFollow(s, loc)
      [] step.op = "path_as_ref" -> AsRefPathFollow(s, loc)
      [] step.op = "downcast" -> DowncastPathFollow(s, loc, step.name)
      [] step.op = "manually_asserted" -> Some(loc)

\* The body of a combinator's select, applied to the place loc that the follow of
\* the path it wraps leads to: VecLookup, MapLookup, OptionUnwrapped, Unboxed and
\* AsRefPath have a body of their own, the others call their own follow.
SelectStep(step, s, loc) ==
    CASE step.op = "vec_lookup" -> VecLookupSelect(s, loc, step.arg)
      [] step.op = "map_lookup" -> MapLookupFollow(s, loc, step.arg)
      [] step.op = "unwrapped" -> OptionUnwrappedFollow(s, loc)
      [] step.op = "unboxed" -> UnboxedFollow(s, loc)
      [] step.op = "path_as_ref" -> AsRefPathFollow(s, loc)
      [] OTHER -> FollowStep(step, s, loc)

RECURSIVE follow_field_of_none(_, _)
\* Mutant of follow: a field accessor does not hand a None of the path it wraps
\* on (no ? after self.path.follow(state)) and gives the field of the root.
follow_field_of_none(p, s) ==
    IF p = <<>> THEN RootFollow(s)
    ELSE LET inner == follow_field_of_none(Front(p), s)
             step  == p[Len(p)]
         IN  IF inner.some THEN FollowStep(step, s, inner.ref)
             ELSE IF step.op = "field" THEN Some(<<Field(step.name)>>)
             ELSE None

RECURSIVE follow(_, _)
\* Path::follow
follow(p, s) ==
    IF p = <<>> THEN RootFollow(s)
    ELSE LET inner == follow(Front(p), s)
         IN  IF ~inner.some THEN None ELSE FollowStep(p[Len(p)], s, inner.ref)

RECURSIVE follow_mut(_, _)
\* Path::follow_mut
follow_mut(p, s) ==
    IF p = <<>> THEN RootFollow(s)
    ELSE LET inner == follow_mut(Front(p), s)
         IN  IF ~inner.some THEN None ELSE FollowMutStep(p[Len(p)], s, inner.ref)

\* Mutant of SelectValue: the state is read (its value field), not the selector.
SelectValueOfState(v, s) == Some(<<Field("value")>>)

\* impl Selector<State, T> for T: Some(self), whatever the state.
SelectValue(v, s) == Some(<<Self(v)>>)

\* A plain value handed in as a selector.
Value(v) == <<[op |-> "value", name |-> "", arg |-> v]>>

IsValue(selector) == Len(selector) = 1 /\ selector[1].op = "value"

RECURSIVE select(_, _)
\* Selector::select of a path or of a plain value
select(p, s) ==
    IF p = <<>> THEN RootFollow(s)
    ELSE IF IsValue(p) THEN SelectValue(p[1].arg, s)
    ELSE LET step == p[Len(p)]
         IN  IF step.op = "manually_asserted" THEN select(Front(p), s)
             ELSE LET inner == follow(Front(p), s)
                  IN  IF ~inner.some THEN None ELSE SelectStep(step, s, inner.ref)

\* Mutant of SAFE: the SAFE of the wrapped path is not handed on; the outermost
\* combinator alone decides.
SAFE_of_outermost(p) ==
    IF p = <<>> THEN TRUE
    ELSE p[Len(p)].op \in {"field", "unboxed", "path_as_ref", "manually_asserted", "value"}

RECURSIVE SAFE_of_field(_)
\* Mutant of SAFE: a field accessor is always SAFE, whatever path it is called on.
SAFE_of_field(p) ==
    IF p = <<>> THEN TRUE
    ELSE LET step == p[Len(p)]
         IN  CASE step.op \in {"unboxed", "path_as_ref"} -> SAFE_of_field(Front(p))
               [] step.op \in {"field", "manually_asserted", "value"} -> TRUE
               [] OTHER -> FALSE

RECURSIVE SAFE_of_unboxed(_)
\* Mutant of SAFE: unboxed() is always SAFE, whatever path it is called on.
SAFE_of_unboxed(p) ==
    IF p = <<>> THEN TRUE
    ELSE LET step == p[Len(p)]
         IN  CASE step.op \in {"field", "path_as_ref"} -> SAFE_of_unboxed(Front(p))
               [] step.op \in {"unboxed", "manually_asserted", "value"} -> TRUE
               [] OTHER -> FALSE

RECURSIVE SAFE(_)
\* The const SAFE: bool of the Path<State, To, SAFE> (of the Selector<State, To,
\* SAFE>, for a plain value) a combinator chain implements.
SAFE(p) ==
    IF p = <<>> THEN TRUE
    ELSE LET step == p[Len(p)]
         IN  CASE step.op \in {"field", "unboxed", "path_as_ref"} -> SAFE(Front(p))
               [] step.op \in {"manually_asserted", "value"} -> TRUE
               [] OTHER -> FALSE

(***************************************************************************)
(* The read operations of Context.  A result holds the place the returned  *)
(* reference designates and the value found there; panicked marks the      *)
(* unwrap() of a None.                                                     *)
(***************************************************************************)
Deref(opt, s) ==
    IF opt.some
    THEN [panicked |-> FALSE, some |-> TRUE, ref |-> opt.ref, value |-> <<ReadAt(s, opt.ref)>>]
    ELSE [panicked |-> FALSE, some |-> FALSE, ref |-> <<>>, value |-> <<>>]

Unwrap(opt, s) ==
    IF opt.some THEN Deref(opt, s)
    ELSE [panicked |-> TRUE, some |-> FALSE, ref |-> <<>>, value |-> <<>>]

\* Mutant of get: a None is handed on, not unwrapped.
get_without_unwrap(selector, s) == Deref(select(selector, s), s)

get(selector, s) == Unwrap(select(selector, s), s)

\* Mutant of try_get: the Option is unwrapped, as in get.
try_get_unwrapping(selector, s) == Unwrap(select(selector, s), s)

try_get(selector, s) == Deref(select(selector, s), s)

try_get_any(selector, s) == Deref(follow(selector, s), s)

context_follow(p, s) == Unwrap(follow(p, s), s)

try_follow(p, s) == Deref(follow(p, s), s)

try_follow_any(p, s) == Deref(follow(p, s), s)

(***************************************************************************)
(* State changes: the boxed closures the write methods push.  A closure is *)
(* modelled by the method that built it and the values it moved in.        *)
(***************************************************************************)
StateChange(kind, p, id, value) == [kind |-> kind, path |-> p, id |-> id, value |-> value]

\* The closures given to update_value_with: |value| *value *= 2 (the run is
\* too short for the product to reach 2^32).
CallClosure(closure, v) == IF closure = "double" THEN v * 2 ELSE v

\* HashMap::insert(id, value)
MapInsert(m, id, value) == [k \in DOMAIN m \cup {id} |-> IF k = id THEN value ELSE m[k]]

\* <MapValue as Default>::default()
MapValueDefault == ""

\* Mutant of MapEntryOrDefault: the default replaces a value that is there
\* (insert(id, Default::default())).
MapInsertOfDefault(m, id) ==
    [k \in DOMAIN m \cup {id} |-> IF k = id THEN MapValueDefault ELSE m[k]]

\* HashMap::entry(id).or_default()
MapEntryOrDefault(m, id) ==
    [k \in DOMAIN m \cup {id} |-> IF k \in DOMAIN m THEN m[k] ELSE MapValueDefault]

\* HashMap::remove(&id)
MapRemove(m, id) == [k \in DOMAIN m \ {id} |-> m[k]]

\* Mutant of VecRetain: the predicate is inverted (retain(|item| item.get_id() == id)).
VecRetainMatching(vec, id) == SelectSeq(vec, LAMBDA item : item.id = id)

\* Mutant of VecRetain: only the first item with the id goes (position + remove).
VecRemoveFirst(vec, id) ==
    LET i == IterFind(vec, id, 1)
    IN  IF i = 0 THEN vec ELSE SubSeq(vec, 1, i - 1) \o SubSeq(vec, i + 1, Len(vec))

\* Vec::retain(|item| item.get_id() != id)
VecRetain(vec, id) == SelectSeq(vec, LAMBDA item : item.id # id)

\* Mutant of update_value_closure: the path is navigated in the state the write
\* call saw (state is still that state when apply() starts) and the change is
\* made only where that place is still the one the path leads to.
update_value_closure_enqueue_time(c, s) ==
    LET reference == follow_mut(c.path, state)
    IN  IF reference.some /\ follow_mut(c.path, s) = reference
        THEN WriteAt(s, reference.ref, c.value)
        ELSE s

\* Mutant of update_value_closure: the assignment is the wrong way round
\* (value = *reference).
update_value_closure_reversed(c, s) ==
    LET reference == follow_mut(c.path, s)
    IN  IF reference.some THEN WriteAt(s, reference.ref, ReadAt(s, reference.ref)) ELSE s

\* Mutant of update_value_closure: a write through unwrapped that finds None makes
\* the option Some of the value (Option::insert).
update_value_closure_inserting(c, s) ==
    LET reference == follow_mut(c.path, s)
        option == follow_mut(Front(c.path), s)
    IN  IF reference.some THEN WriteAt(s, reference.ref, c.value)
        ELSE IF c.path[Len(c.path)].op = "unwrapped" /\ option.some
        THEN WriteAt(s, option.ref, <<c.value>>)
        ELSE s

\* The closure update_value pushes.
update_value_closure(c, s) ==
    LET reference == follow_mut(c.path, s)
    IN  IF reference.some THEN WriteAt(s, reference.ref, c.value) ELSE s

\* Mutant of update_value_with_closure: the closure is given the value the target
\* had when the write call was made.
update_value_with_closure_enqueue_time(c, s) ==
    LET reference == follow_mut(c.path, s)
        early == follow_mut(c.path, state)
    IN  IF reference.some
        THEN WriteAt(s, reference.ref,
                     CallClosure(c.value, IF early = reference
                                          THEN ReadAt(state, reference.ref)
                                          ELSE ReadAt(s, reference.ref)))
        ELSE s

\* The closure update_value_with pushes.
update_value_with_closure(c, s) ==
    LET reference == follow_mut(c.path, s)
    IN  IF reference.some
        THEN WriteAt(s, reference.ref, CallClosure(c.value, ReadAt(s, reference.ref)))
        ELSE s

\* Mutant of vec_push_closure: an item whose identity the vector already has is
\* not pushed.
vec_push_closure_unique(c, s) ==
    LET reference == follow_mut(c.path, s)
    IN  IF reference.some /\ IterFind(ReadAt(s, reference.ref), c.value.id, 1) = 0
        THEN WriteAt(s, reference.ref, Append(ReadAt(s, reference.ref), c.value))
        ELSE s

\* Mutant of vec_push_closure: the item goes to the front (insert(0, value)).
vec_push_closure_front(c, s) ==
    LET reference == follow_mut(c.path, s)
    IN  IF reference.some
        THEN WriteAt(s, reference.ref, <<c.value>> \o ReadAt(s, reference.ref))
        ELSE s

\* The closure vec_push pushes: reference.push(value).
vec_push_closure(c, s) ==
    LET reference == follow_mut(c.path, s)
    IN  IF reference.some
        THEN WriteAt(s, reference.ref, Append(ReadAt(s, reference.ref), c.value))
        ELSE s

\* The closure vec_remove pushes.
vec_remove_closure(c, s) ==
    LET reference == follow_mut(c.path, s)
    IN  IF reference.some
        THEN WriteAt(s, reference.ref, VecRetain(ReadAt(s, reference.ref), c.id))
        ELSE s

\* The closure map_insert pushes.
map_insert_closure(c, s) ==
    LET reference == follow_mut(c.path, s)
    IN  IF reference.some
        THEN WriteAt(s, reference.ref, MapInsert(ReadAt(s, reference.ref), c.id, c.value))
        ELSE s

\* The closure map_insert_default pushes.
map_insert_default_closure(c, s) ==
    LET reference == follow_mut(c.path, s)
    IN  IF reference.some
        THEN WriteAt(s, reference.ref, MapEntryOrDefault(ReadAt(s, reference.ref), c.id))
        ELSE s

\* The closure map_remove pushes.
map_remove_closure(c, s) ==
    LET reference == follow_mut(c.path, s)
    IN  IF reference.some
        THEN WriteAt(s, reference.ref, MapRemove(ReadAt(s, reference.ref), c.id))
        ELSE s

\* Calling a queued StateChange<State> = Box<dyn FnOnce(&mut State)>: the state it leaves.
Call(c, s) ==
    CASE c.kind = "update_value" -> update_value_closure(c, s)
      [] c.kind = "update_value_with" -> update_value_with_closure(c, s)
      [] c.kind = "vec_push" -> vec_push_closure(c, s)
      [] c.kind = "vec_remove" -> vec_remove_closure(c, s)
      [] c.kind = "map_insert" -> map_insert_closure(c, s)
      [] c.kind = "map_insert_default" -> map_insert_default_closure(c, s)
      [] c.kind = "map_remove" -> map_remove_closure(c, s)

\* Mutant of Drain: the queue is drained from its back (drain(..).rev()).
DrainReversed(q) == [yielded |-> [k \in 1..Len(q) |-> q[Len(q) + 1 - k]], left |-> <<>>]

\* Mutant of Drain: the queue is iterated, not drained (iter() for drain(..)).
DrainKeepsItems(q) == [yielded |-> q, left |-> q]

\* Vec::drain(..): the items it yields, in order, and what it leaves in the vector.
Drain(q) == [yielded |-> q, left |-> <<>>]

RECURSIVE ForEachLifo(_, _)
\* Mutant of ForEach: the queue is consumed from its back (pop() until empty).
ForEachLifo(q, s) ==
    IF q = <<>> THEN s ELSE ForEachLifo(Front(q), Call(q[Len(q)], s))

RECURSIVE ForEachStopsAtFailure(_, _)
\* Mutant of ForEach: the first closure whose path does not resolve ends the loop.
ForEachStopsAtFailure(q, s) ==
    IF q = <<>> THEN s
    ELSE IF ~follow_mut(Head(q).path, s).some THEN s
    ELSE ForEachStopsAtFailure(Tail(q), Call(Head(q), s))

RECURSIVE ForEachUnwrapsSafe(_, _)
\* Mutant of ForEach: a closure whose path is SAFE unwraps what follow_mut gives;
\* the panic on None ends the loop with the closures before it applied.
ForEachUnwrapsSafe(q, s) ==
    IF q = <<>> THEN s
    ELSE IF SAFE(Head(q).path) /\ ~follow_mut(Head(q).path, s).some THEN s
    ELSE ForEachUnwrapsSafe(Tail(q), Call(Head(q), s))

RECURSIVE ForEach(_, _)
\* .for_each(|apply| apply(&mut self.state))
ForEach(q, s) ==
    IF q = <<>> THEN s ELSE ForEach(Tail(q), Call(Head(q), s))

(***************************************************************************)
(* The inputs of a run.                                                    *)
(***************************************************************************)
TestItem(id, val) == [id |-> id, val |-> val]

value_path == field(path, "value")

items_path == field(path, "items")

map_path == field(path, "map")

MyState(value, items, map) == [value |-> value, items |-> items, map |-> map]

\* The root states a run starts from: Context::new takes any MyState.
InitialStates ==
    {MyState(5, <<>>, <<>>),
     MyState(5, <<TestItem(10, 1)>>, [k \in {10} |-> "a"])}

UpdateValueInputs ==
    {<<value_path, 10>>, <<value_path, 7>>,
     <<field(lookup(items_path, 10), "val"), 7>>,
     <<map_lookup(map_path, 10), "c">>}

UpdateValueWithInputs == {<<value_path, "double">>}

VecPushInputs == {<<items_path, TestItem(10, 2)>>, <<items_path, TestItem(20, 2)>>}

VecRemoveInputs == {<<items_path, 10>>}

MapInsertInputs == {<<map_path, 10, "b">>}

MapInsertDefaultInputs == {<<map_path, 20>>}

MapRemoveInputs == {<<map_path, 10>>}

(***************************************************************************)
(* Context                                                                 *)
(***************************************************************************)
\* No read method has been called yet.
NotCalled ==
    [method |-> "", selector |-> <<>>,
     result |-> [panicked |-> FALSE, some |-> FALSE, ref |-> <<>>, value |-> <<>>]]

\* Context::new(state)
Init ==
    /\ state \in InitialStates
    /\ state_changes = <<>>
    /\ writes = 0
    /\ last_apply = [done |-> FALSE, pre |-> state, queue |-> <<>>]
    /\ returned = NotCalled

push_change(state_change) ==
    state_changes' = Append(state_changes, state_change)

\* writes counts the write calls; CanWrite stops a run after MaxWrites of them.
CanWrite == writes < MaxWrites

\* Mutant of update_value: the change is made at once instead of being queued.
update_value_eager(p, value) ==
    /\ CanWrite
    /\ state' = Call(StateChange("update_value", p, 0, value), state)
    /\ writes' = writes + 1
    /\ UNCHANGED <<state_changes, last_apply, returned>>

update_value(p, value) ==
    /\ CanWrite
    /\ push_change(StateChange("update_value", p, 0, value))
    /\ writes' = writes + 1
    /\ UNCHANGED <<state, last_apply, returned>>

update_value_with(p, closure) ==
    /\ CanWrite
    /\ push_change(StateChange("update_value_with", p, 0, closure))
    /\ writes' = writes + 1
    /\ UNCHANGED <<state, last_apply, returned>>

vec_push(p, value) ==
    /\ CanWrite
    /\ push_change(StateChange("vec_push", p, 0, value))
    /\ writes' = writes + 1
    /\ UNCHANGED <<state, last_apply, returned>>

vec_remove(p, id) ==
    /\ CanWrite
    /\ push_change(StateChange("vec_remove", p, id, 0))
    /\ writes' = writes + 1
    /\ UNCHANGED <<state, last_apply, returned>>

map_insert(p, id, value) ==
    /\ CanWrite
    /\ push_change(StateChange("map_insert", p, id, value))
    /\ writes' = writes + 1
    /\ UNCHANGED <<state, last_apply, returned>>

map_insert_default(p, id) ==
    /\ CanWrite
    /\ push_change(StateChange("map_insert_default", p, id, 0))
    /\ writes' = writes + 1
    /\ UNCHANGED <<state, last_apply, returned>>

map_remove(p, id) ==
    /\ CanWrite
    /\ push_change(StateChange("map_remove", p, id, 0))
    /\ writes' = writes + 1
    /\ UNCHANGED <<state, last_apply, returned>>

apply ==
    LET drained == Drain(state_changes)
    IN  /\ state' = ForEach(drained.yielded, state)
        /\ state_changes' = drained.left
        /\ last_apply' = [done |-> TRUE, pre |-> state, queue |-> state_changes]
        /\ UNCHANGED <<writes, returned>>

Next ==
    \/ \E in \in UpdateValueInputs : update_value(in[1], in[2])
    \/ \E in \in UpdateValueWithInputs : update_value_with(in[1], in[2])
    \/ \E in \in VecPushInputs : vec_push(in[1], in[2])
    \/ \E in \in VecRemoveInputs : vec_remove(in[1], in[2])
    \/ \E in \in MapInsertInputs : map_insert(in[1], in[2], in[3])
    \/ \E in \in MapInsertDefaultInputs : map_insert_default(in[1], in[2])
    \/ \E in \in MapRemoveInputs : map_remove(in[1], in[2])
    \/ apply

Spec == Init /\ [][Next]_vars

(***************************************************************************)
(* Navigation.  The root state here has one field for every kind of        *)
(* container the combinators open, in the shape of the modules' doc tests: *)
(*     struct State { value: u32,                                          *)
(*                    items: Vec<TestItem>,                                *)
(*                    map: HashMap<u32, MapValue>,                         *)
(*                    array: [u32; 3],                                     *)
(*                    option: Option<Box<TestItem>>,                       *)
(*                    inner: Box<TestItem>,                                *)
(*                    dynamic: Box<dyn Any> }    holding a TestItem or an  *)
(*                                               Inner { value: u32 }      *)
(***************************************************************************)
State(value, items, map, array, option, inner, dynamic) ==
    [value |-> value, items |-> items, map |-> map, array |-> array,
     option |-> option, inner |-> inner, dynamic |-> dynamic]

\* Box::new(x)
Box(x) == <<x>>

\* Box::new(x) as Box<dyn Any>
BoxDynAny(x, type_id) == <<x, type_id>>

\* Option::Some(x) and Option::None as values of the state
OptionSome(x) == <<x>>

OptionNone == <<>>

Inner(value) == [value |-> value]

array_path == field(path, "array")

option_path == field(path, "option")

inner_path == field(path, "inner")

dynamic_path == field(path, "dynamic")

\* The fields of the structs that derive RustState, with their types.
Fields(t) ==
    CASE t = "State" ->
            [value |-> "u32", items |-> "Vec<TestItem>", map |-> "HashMap<u32, MapValue>",
             array |-> "[u32; 3]", option |-> "Option<Box<TestItem>>",
             inner |-> "Box<TestItem>", dynamic |-> "Box<dyn Any>"]
      [] t = "TestItem" -> [id |-> "u32", val |-> "u32"]
      [] t = "Inner" -> [value |-> "u32"]
      [] OTHER -> <<>>

RECURSIVE To(_)
\* The To of the Path<State, To, SAFE> a combinator chain implements.
To(p) ==
    IF p = <<>> THEN "State"
    ELSE LET step == p[Len(p)]
             from == To(Front(p))
         IN  CASE step.op = "field" -> Fields(from)[step.name]
               [] step.op \in {"vec_lookup", "vec_index"} -> "TestItem"
               [] step.op = "map_lookup" -> "MapValue"
               [] step.op = "array_index" -> "u32"
               [] step.op = "unwrapped" -> "Box<TestItem>"
               [] step.op \in {"unboxed", "path_as_ref"} -> "TestItem"
               [] step.op = "downcast" -> step.name
               [] step.op = "manually_asserted" -> from

\* The N of the [u32; N] in the state.
N == 3

\* The longest chain of combinators of the paths navigated.
MaxCombinators == 4

\* The identities, keys and positions the lookups of the navigated paths ask for.
LookupIds == {10, 20}

LookupKeys == {10, 20}

VecIndexes == {0, 5}

ArrayIndexes == {1, 3}

DowncastTargets == {"TestItem", "Inner"}

\* The paths one combinator builds on path p: what the bounds of the extension
\* traits admit for the type p leads to.
Extensions(p) ==
    LET t == To(p)
    IN  {field(p, name) : name \in DOMAIN Fields(t)}
        \cup (IF t = "Vec<TestItem>"
              THEN {lookup(p, id) : id \in LookupIds} \cup {index(p, i) : i \in VecIndexes}
              ELSE {})
        \cup (IF t = "HashMap<u32, MapValue>"
              THEN {map_lookup(p, id) : id \in LookupKeys} ELSE {})
        \cup (IF t = "[u32; 3]" THEN {array_index(p, i) : i \in ArrayIndexes} ELSE {})
        \cup (IF t = "Option<Box<TestItem>>" THEN {unwrapped(p)} ELSE {})
        \cup (IF t = "Box<TestItem>" THEN {unboxed(p), path_as_ref(p)} ELSE {})
        \cup (IF t = "Box<dyn Any>" THEN {downcast(p, target) : target \in DowncastTargets}
              ELSE {})
        \cup (IF ~SAFE(p) THEN {manually_asserted(p)} ELSE {})

RECURSIVE PathsOfLength(_)
PathsOfLength(n) ==
    IF n = 0 THEN {path} ELSE UNION {Extensions(p) : p \in PathsOfLength(n - 1)}

\* Every path of at most MaxCombinators combinators.
Paths == UNION {PathsOfLength(n) : n \in 0..MaxCombinators}

\* The root states the paths are navigated in.
NavigatedStates ==
    {State(5, items, map, <<7, 8, 9>>, option, Box(TestItem(20, 2)), dynamic) :
        items \in {<<>>, <<TestItem(10, 1)>>,
                   <<TestItem(20, 1), TestItem(10, 2), TestItem(10, 3)>>},
        map \in {<<>>, [k \in {10} |-> "a"]},
        option \in {OptionNone, OptionSome(Box(TestItem(10, 1)))},
        dynamic \in {BoxDynAny(Inner(99), "Inner"), BoxDynAny(TestItem(10, 1), "TestItem")}}

InitNavigation ==
    /\ state \in NavigatedStates
    /\ state_changes = <<>>
    /\ writes = 0
    /\ last_apply = [done |-> FALSE, pre |-> state, queue |-> <<>>]
    /\ returned = NotCalled

\* The three methods of a path, and its SAFE, on the root state.
navigate(p) ==
    /\ returned' = [method |-> "navigate", selector |-> p,
                    result |-> [follow |-> follow(p, state),
                                follow_mut |-> follow_mut(p, state),
                                select |-> select(p, state),
                                SAFE |-> SAFE(p)]]
    /\ UNCHANGED <<state, state_changes, writes, last_apply>>

NextNavigation == \E p \in Paths : navigate(p)

NavigationSpec == InitNavigation /\ [][NextNavigation]_vars

(***************************************************************************)
(* Reading.  The read methods take &self and return a reference (or panic  *)
(* in unwrap(), which leaves the Context as it was); a call is recorded in *)
(* returned.  The bounds on the selector's SAFE are those of the methods'  *)
(* where clauses.                                                          *)
(***************************************************************************)
Called(method, selector, result) ==
    [method |-> method, selector |-> selector, result |-> result]

Context_get(selector) ==
    /\ SAFE(selector)
    /\ returned' = Called("get", selector, get(selector, state))
    /\ UNCHANGED <<state, state_changes, writes, last_apply>>

\* Mutant of Context_try_get: the pending changes are applied before the read.
Context_try_get_applying(selector) ==
    /\ ~SAFE(selector)
    /\ state' = ForEach(state_changes, state)
    /\ state_changes' = <<>>
    /\ returned' = Called("try_get", selector, try_get(selector, state'))
    /\ UNCHANGED <<writes, last_apply>>

Context_try_get(selector) ==
    /\ ~SAFE(selector)
    /\ returned' = Called("try_get", selector, try_get(selector, state))
    /\ UNCHANGED <<state, state_changes, writes, last_apply>>

Context_try_get_any(selector) ==
    /\ ~IsValue(selector)
    /\ returned' = Called("try_get_any", selector, try_get_any(selector, state))
    /\ UNCHANGED <<state, state_changes, writes, last_apply>>

Context_follow(p) ==
    /\ ~IsValue(p) /\ SAFE(p)
    /\ returned' = Called("follow", p, context_follow(p, state))
    /\ UNCHANGED <<state, state_changes, writes, last_apply>>

Context_try_follow(p) ==
    /\ ~IsValue(p) /\ ~SAFE(p)
    /\ returned' = Called("try_follow", p, try_follow(p, state))
    /\ UNCHANGED <<state, state_changes, writes, last_apply>>

Context_try_follow_any(p) ==
    /\ ~IsValue(p)
    /\ returned' = Called("try_follow_any", p, try_follow_any(p, state))
    /\ UNCHANGED <<state, state_changes, writes, last_apply>>

\* The root states the reading runs start from.
ReadInitialStates ==
    {State(5, <<TestItem(20, 1), TestItem(10, 2), TestItem(10, 3)>>, [k \in {10} |-> "a"],
           <<7, 8, 9>>, OptionSome(Box(TestItem(10, 1))), Box(TestItem(20, 2)),
           BoxDynAny(Inner(99), "Inner")),
     State(5, <<>>, <<>>, <<7, 8, 9>>, OptionNone, Box(TestItem(20, 2)),
           BoxDynAny(TestItem(10, 1), "TestItem"))}

\* The selectors handed to the read methods: paths and a plain value (1u32).
ReadSelectors ==
    {path, value_path, Value(1),
     field(unboxed(inner_path), "val"),
     lookup(items_path, 10), manually_asserted(lookup(items_path, 10)),
     index(items_path, 5), manually_asserted(index(items_path, 5)),
     unboxed(unwrapped(option_path)), downcast(dynamic_path, "Inner")}

\* The write calls of the reading runs.
ReadUpdateValueInputs ==
    {<<option_path, OptionNone>>, <<field(unboxed(inner_path), "val"), 7>>}

ReadVecRemoveInputs == {<<items_path, 10>>}

InitRead ==
    /\ state \in ReadInitialStates
    /\ state_changes = <<>>
    /\ writes = 0
    /\ last_apply = [done |-> FALSE, pre |-> state, queue |-> <<>>]
    /\ returned = NotCalled

NextRead ==
    \/ \E in \in ReadUpdateValueInputs : update_value(in[1], in[2])
    \/ \E in \in ReadVecRemoveInputs : vec_remove(in[1], in[2])
    \/ apply
    \/ \E selector \in ReadSelectors : Context_get(selector)
    \/ \E selector \in ReadSelectors : Context_try_get(selector)
    \/ \E selector \in ReadSelectors : Context_try_get_any(selector)
    \/ \E p \in ReadSelectors : Context_follow(p)
    \/ \E p \in ReadSelectors : Context_try_follow(p)
    \/ \E p \in ReadSelectors : Context_try_follow_any(p)

ReadSpec == InitRead /\ [][NextRead]_vars

(***************************************************************************)
(* Writing through the combinators: the write methods of Context on the    *)
(* State above, with paths through unwrapped, manually_asserted, lookup,   *)
(* index and the map lookup, and apply().                                  *)
(***************************************************************************)
\* The root states the writing runs start from.
WriteInitialStates ==
    {State(5, <<TestItem(20, 1), TestItem(10, 2), TestItem(10, 3)>>,
           [k \in {10, 20} |-> IF k = 10 THEN "a" ELSE "z"],
           <<7, 8, 9>>, OptionSome(Box(TestItem(10, 1))), Box(TestItem(20, 2)),
           BoxDynAny(Inner(99), "Inner")),
     State(5, <<>>, <<>>, <<7, 8, 9>>, OptionNone, Box(TestItem(20, 2)),
           BoxDynAny(TestItem(10, 1), "TestItem"))}

\* The write calls of the writing runs.
WriteUpdateValueInputs ==
    {<<unwrapped(option_path), Box(TestItem(30, 3))>>,
     <<field(manually_asserted(lookup(items_path, 10)), "val"), 7>>,
     <<map_lookup(map_path, 10), "c">>}

WriteUpdateValueWithInputs == {<<field(index(items_path, 0), "val"), "double">>}

WriteVecPushInputs == {<<items_path, TestItem(30, 1)>>}

WriteVecRemoveInputs == {<<items_path, 10>>}

WriteMapInsertInputs == {<<map_path, 10, "b">>}

WriteMapInsertDefaultInputs == {<<map_path, 10>>}

WriteMapRemoveInputs == {<<map_path, 10>>}

InitWrite ==
    /\ state \in WriteInitialStates
    /\ state_changes = <<>>
    /\ writes = 0
    /\ last_apply = [done |-> FALSE, pre |-> state, queue |-> <<>>]
    /\ returned = NotCalled

NextWrite ==
    \/ \E in \in WriteUpdateValueInputs : update_value(in[1], in[2])
    \/ \E in \in WriteUpdateValueWithInputs : update_value_with(in[1], in[2])
    \/ \E in \in WriteVecPushInputs : vec_push(in[1], in[2])
    \/ \E in \in WriteVecRemoveInputs : vec_remove(in[1], in[2])
    \/ \E in \in WriteMapInsertInputs : map_insert(in[1], in[2], in[3])
    \/ \E in \in WriteMapInsertDefaultInputs : map_insert_default(in[1], in[2])
    \/ \E in \in WriteMapRemoveInputs : map_remove(in[1], in[2])
    \/ apply

WriteSpec == InitWrite /\ [][NextWrite]_vars

(***************************************************************************)
(* Properties.  Batch is the queue the latest apply() drained and Pre the  *)
(* root state it started from.                                             *)
(***************************************************************************)
Batch == last_apply.queue

Pre == last_apply.pre

\* StatesOf(q, s)[k] is the state reached from s by the first k changes of q, one
\* after the other.
StatesOf(q, s) ==
    LET st[k \in 0..Len(q)] == IF k = 0 THEN s ELSE Call(q[k], st[k - 1])
    IN  st

Sequential(q, s) == StatesOf(q, s)[Len(q)]

\* q without its j-th change
Without(q, j) == SubSeq(q, 1, j - 1) \o SubSeq(q, j + 1, Len(q))

\* The root field a path starts from (every path of the inputs starts with one).
RootField(p) == p[1].name

\* No change of q after the j-th goes through the root field the j-th goes through.
UntouchedAfter(q, j) ==
    \A k \in (j + 1)..Len(q) : RootField(q[k].path) # RootField(q[j].path)

\* The paths read by the properties, by the read methods their SAFE admits.
ReadPaths ==
    {path, value_path, items_path, map_path,
     lookup(items_path, 10), lookup(items_path, 20),
     field(lookup(items_path, 10), "val"),
     index(items_path, 1),
     map_lookup(map_path, 10), map_lookup(map_path, 20)}

\* What every read method returns for every path in state s.
Reads(s) ==
    [p \in ReadPaths |->
        <<IF SAFE(p) THEN get(p, s) ELSE try_get(p, s),
          IF SAFE(p) THEN context_follow(p, s) ELSE try_follow(p, s),
          try_get_any(p, s),
          try_follow_any(p, s)>>]

\* C1: apply() leaves the state reached by applying the queued changes one after
\* the other in enqueue order, each to the result of the one before; of two
\* update_value calls on the same path, the value of the later one is read
\* afterwards.
C1_FifoOrder ==
    last_apply.done =>
        /\ state = Sequential(Batch, Pre)
        /\ \A i \in 1..Len(Batch) :
              LET j == Len(Batch)
              IN  (/\ i < j
                   /\ Batch[i].kind = "update_value"
                   /\ Batch[j].kind = "update_value"
                   /\ Batch[i].path = Batch[j].path)
                  => LET r == try_get_any(Batch[j].path, state)
                     IN  r.some => r.value = <<Batch[j].value>>

\* Two update_value calls on the same path with different values were applied,
\* after a change to another place.
C1_Witness ==
    /\ last_apply.done
    /\ Len(Batch) = 3
    /\ Batch[2].kind = "update_value" /\ Batch[3].kind = "update_value"
    /\ Batch[2].path = value_path /\ Batch[3].path = value_path
    /\ Batch[2].value = 10 /\ Batch[3].value = 7
    /\ Batch[1].kind = "vec_push"
    /\ state.value = 7

\* C2: a write call only queues: the step leaves every result of every read
\* method as it was, whatever is already queued.
C2_WritesOnlyQueue ==
    [][writes' = writes + 1 =>
          /\ Reads(state') = Reads(state)
          /\ Len(state_changes') = Len(state_changes) + 1]_vars

\* Two writes are queued, one an update_value whose path resolves to a place that
\* still holds another value.
C2_Witness ==
    /\ Len(state_changes) >= 2
    /\ \E i \in 1..Len(state_changes) :
          /\ state_changes[i].kind = "update_value"
          /\ LET r == try_get_any(state_changes[i].path, state)
             IN  r.some /\ r.value # <<state_changes[i].value>>

\* C3: an apply() takes the whole queue and leaves it empty, a write call removes
\* nothing from the queue, and an apply() that finds the queue empty leaves the
\* root state as it is.
C3_ConsumedOnce ==
    [][/\ writes' = writes =>
             /\ state_changes' = <<>>
             /\ last_apply'.queue = state_changes
       /\ writes' # writes => Front(state_changes') = state_changes
       /\ (writes' = writes /\ state_changes = <<>>) => state' = state]_vars

\* A second apply() ran with no write call since the first, which had applied
\* a change.
C3_Witness ==
    /\ last_apply.done
    /\ Batch = <<>>
    /\ state_changes = <<>>
    /\ writes > 0
    /\ state.value = 10
    /\ state = Pre

\* The result of a read that found value v.
Found(r, v) == r.some /\ r.value = <<v>>

\* The j-th change of the latest batch found its path not to resolve.
FailedAt(j) == ~follow_mut(Batch[j].path, StatesOf(Batch, Pre)[j - 1]).some

\* C4: a queued change whose path does not resolve when apply() reaches it changes
\* nothing, and the state apply() leaves is the one the queue without that change
\* would have given: the changes before and after it take their full effect.
C4_FailedChangeSkipped ==
    last_apply.done =>
        \A j \in 1..Len(Batch) :
            FailedAt(j) =>
                /\ StatesOf(Batch, Pre)[j] = StatesOf(Batch, Pre)[j - 1]
                /\ state = Sequential(Without(Batch, j), Pre)

\* The second of three changes failed; the first and the third changed the state.
C4_Witness ==
    /\ last_apply.done
    /\ Len(Batch) = 3
    /\ FailedAt(2)
    /\ StatesOf(Batch, Pre)[1] # Pre
    /\ state # StatesOf(Batch, Pre)[2]
    /\ state # Pre

\* p goes through lookup(q, id): it is that path or one built on it.
GoesThrough(p, inner) == Len(p) >= Len(inner) /\ SubSeq(p, 1, Len(inner)) = inner

\* Changes i < j of the batch, and no other change from i on through their root field.
AloneFrom(i, j) ==
    \A k \in i..Len(Batch) :
        k \notin {i, j} => RootField(Batch[k].path) # RootField(Batch[i].path)

\* C5: paths are navigated when apply() reaches the change, in the state the
\* earlier changes of the batch left.  (a) update_value on lookup(k), queued after
\* map_insert(k, v) while k was absent, takes effect.  (b) update_value through
\* lookup(id), queued after vec_remove(id) while an element with id was present,
\* is dropped.
C5_NavigatedAtApply ==
    last_apply.done =>
        \A i, j \in 1..Len(Batch) :
            (i < j /\ Batch[j].kind = "update_value") =>
                /\ (/\ Batch[i].kind = "map_insert"
                    /\ Batch[j].path = map_lookup(Batch[i].path, Batch[i].id)
                    /\ ~follow(Batch[j].path, Pre).some
                    /\ AloneFrom(i, j))
                   => Found(try_get_any(Batch[j].path, state), Batch[j].value)
                /\ (/\ Batch[i].kind = "vec_remove"
                    /\ GoesThrough(Batch[j].path, lookup(Batch[i].path, Batch[i].id))
                    /\ follow(Batch[j].path, Pre).some
                    /\ \A k \in (i + 1)..(j - 1) :
                          RootField(Batch[k].path) # RootField(Batch[i].path))
                   => /\ FailedAt(j)
                      /\ state = Sequential(Without(Batch, j), Pre)

\* Case (a): the key was absent, and the update queued after the insert is what
\* the map holds.
C5_Witness ==
    /\ last_apply.done
    /\ Len(Batch) >= 2
    /\ Batch[1].kind = "map_insert" /\ Batch[1].id = 10 /\ Batch[1].value = "b"
    /\ Batch[2].kind = "update_value" /\ Batch[2].path = map_lookup(map_path, 10)
    /\ 10 \notin DOMAIN Pre.map
    /\ AloneFrom(1, 2)
    /\ 10 \in DOMAIN state.map /\ state.map[10] = "c"

\* Case (b): the element was present, and the update queued after its removal
\* changed nothing.
C5_WitnessDropped ==
    /\ last_apply.done
    /\ Len(Batch) >= 2
    /\ Batch[1].kind = "vec_remove" /\ Batch[1].id = 10
    /\ Batch[2].kind = "update_value"
    /\ Batch[2].path = field(lookup(items_path, 10), "val")
    /\ follow(Batch[2].path, Pre).some
    /\ ~follow(Batch[2].path, state).some
    /\ state.items = <<>>

\* C6: after apply(), an update_value whose path resolved when it was reached, and
\* with no later change of the batch through the same root field, is read back: the
\* path resolves and holds the value given to update_value.
C6_UpdateValueRead ==
    last_apply.done =>
        \A j \in 1..Len(Batch) :
            (/\ Batch[j].kind = "update_value"
             /\ ~FailedAt(j)
             /\ UntouchedAfter(Batch, j))
            => /\ Found(try_get_any(Batch[j].path, state), Batch[j].value)
               /\ Found(try_follow_any(Batch[j].path, state), Batch[j].value)
               /\ SAFE(Batch[j].path) =>
                     Found(get(Batch[j].path, state), Batch[j].value)
               /\ ~SAFE(Batch[j].path) =>
                     Found(try_get(Batch[j].path, state), Batch[j].value)

\* update_value(value_path, 10) on a state holding 5, followed in the queue by a
\* change elsewhere, and 10 is read.
C6_Witness ==
    /\ last_apply.done
    /\ Len(Batch) >= 2
    /\ Batch[1] = StateChange("update_value", value_path, 0, 10)
    /\ UntouchedAfter(Batch, 1)
    /\ Pre.value = 5
    /\ Found(get(value_path, state), 10)

\* C7: update_value_with hands its closure, once, the value the target has when
\* apply() reaches it: with no later change through the same root field, the value
\* read afterwards is the closure's result on the value the earlier changes left;
\* after update_value(p, v) that is the closure's result on v.
C7_TransformAtApply ==
    last_apply.done =>
        \A j \in 1..Len(Batch) :
            (/\ Batch[j].kind = "update_value_with"
             /\ ~FailedAt(j)
             /\ UntouchedAfter(Batch, j))
            => LET before == StatesOf(Batch, Pre)[j - 1]
                   target == ReadAt(before, follow(Batch[j].path, before).ref)
               IN  /\ Found(try_get_any(Batch[j].path, state),
                            CallClosure(Batch[j].value, target))
                   /\ (/\ j > 1
                       /\ Batch[j - 1].kind = "update_value"
                       /\ Batch[j - 1].path = Batch[j].path)
                      => Found(try_get_any(Batch[j].path, state),
                               CallClosure(Batch[j].value, Batch[j - 1].value))

\* update_value(p, 10) then update_value_with(p, double) on a target holding 5: 20.
C7_Witness ==
    /\ last_apply.done
    /\ Batch = <<StateChange("update_value", value_path, 0, 10),
                 StateChange("update_value_with", value_path, 0, "double")>>
    /\ Pre.value = 5
    /\ state.value = 20

\* Every change of the batch through the root field of p is of the given kind and
\* has path p.
OnlyKind(kind, p) ==
    \A k \in 1..Len(Batch) :
        RootField(Batch[k].path) = RootField(p) =>
            Batch[k].kind = kind /\ Batch[k].path = p

\* The items the vec_push changes of the batch give for path p, in queue order.
Pushed(p) ==
    LET pushes == SelectSeq(Batch, LAMBDA c : c.kind = "vec_push" /\ c.path = p)
    IN  [k \in 1..Len(pushes) |-> pushes[k].value]

\* What path p leads to in state s (p resolves in s).
Target(p, s) == ReadAt(s, follow(p, s).ref)

\* C8: every vec_push appends its item to the vector as apply() finds it: the
\* vector grows by one, its elements stay where they were and the item comes
\* last; a batch whose only changes to a vector are vec_push calls leaves the
\* vector it found followed by the pushed items in queue order.
C8_PushAppends ==
    last_apply.done =>
        \A j \in 1..Len(Batch) :
            (Batch[j].kind = "vec_push" /\ ~FailedAt(j)) =>
                LET p == Batch[j].path
                    before == Target(p, StatesOf(Batch, Pre)[j - 1])
                    after == Target(p, StatesOf(Batch, Pre)[j])
                IN  /\ Len(after) = Len(before) + 1
                    /\ SubSeq(after, 1, Len(before)) = before
                    /\ after[Len(after)] = Batch[j].value
                    /\ (OnlyKind("vec_push", p) /\ follow(p, Pre).some) =>
                          Found(try_get_any(p, state), Target(p, Pre) \o Pushed(p))

\* Two different items were pushed in one batch onto a vector holding one item.
C8_Witness ==
    /\ last_apply.done
    /\ Pre.items = <<TestItem(10, 1)>>
    /\ OnlyKind("vec_push", items_path)
    /\ Pushed(items_path) = <<TestItem(20, 2), TestItem(10, 2)>>
    /\ state.items = <<TestItem(10, 1), TestItem(20, 2), TestItem(10, 2)>>

RECURSIVE WithoutId(_, _)
\* vec without its elements of identity id, the others in their order.
WithoutId(vec, id) ==
    IF vec = <<>> THEN <<>>
    ELSE IF Head(vec).id = id THEN WithoutId(Tail(vec), id)
    ELSE <<Head(vec)>> \o WithoutId(Tail(vec), id)

\* C9: vec_remove(id) leaves the vector apply() finds without any of its elements
\* of identity id and with the others in their order (unchanged when none has
\* the id); a batch whose only change to a vector is one vec_remove leaves the
\* vector it found so reduced.
C9_RemoveAllWithId ==
    last_apply.done =>
        \A j \in 1..Len(Batch) :
            (Batch[j].kind = "vec_remove" /\ ~FailedAt(j)) =>
                LET p == Batch[j].path
                    before == Target(p, StatesOf(Batch, Pre)[j - 1])
                    after == Target(p, StatesOf(Batch, Pre)[j])
                IN  /\ after = WithoutId(before, Batch[j].id)
                    /\ (/\ follow(p, Pre).some
                        /\ \A k \in 1..Len(Batch) :
                              k # j => RootField(Batch[k].path) # RootField(p))
                       => Found(try_get_any(p, state), WithoutId(Target(p, Pre), Batch[j].id))

\* Two elements with the id, and one with another between them, were in the
\* vector; the one with the other id is what is left.
C9_Witness ==
    /\ last_apply.done
    /\ Pre.items = <<TestItem(10, 1), TestItem(20, 2), TestItem(10, 2)>>
    /\ Batch = <<StateChange("vec_remove", items_path, 10, 0)>>
    /\ state.items = <<TestItem(20, 2)>>

\* No element has the id: the vector is as it was.
C9_WitnessNoMatch ==
    /\ last_apply.done
    /\ Pre.items = <<TestItem(20, 2)>>
    /\ Batch = <<StateChange("vec_remove", items_path, 10, 0)>>
    /\ state.items = <<TestItem(20, 2)>>

\* The bindings of map m for the keys other than id.
OtherBindings(m, id) == [k \in DOMAIN m \ {id} |-> m[k]]

\* Changes i and j are the only ones of the batch through their root field.
OnlyThese(i, j) ==
    \A k \in 1..Len(Batch) :
        k \notin {i, j} => RootField(Batch[k].path) # RootField(Batch[i].path)

\* C10: map changes on one key take effect in queue order: after map_remove(k)
\* then map_insert(k, v) the key is bound to v, after map_insert(k, v) then
\* map_remove(k) it is absent, and the other keys keep their bindings.
C10_MapOrder ==
    last_apply.done =>
        \A i, j \in 1..Len(Batch) :
            (/\ i < j
             /\ Batch[i].path = Batch[j].path
             /\ Batch[i].id = Batch[j].id
             /\ follow(Batch[i].path, Pre).some
             /\ AloneFrom(i, j)) =>
                LET p == Batch[i].path
                    entry == try_get_any(map_lookup(p, Batch[i].id), state)
                IN  /\ (Batch[i].kind = "map_remove" /\ Batch[j].kind = "map_insert")
                       => Found(entry, Batch[j].value)
                    /\ (Batch[i].kind = "map_insert" /\ Batch[j].kind = "map_remove")
                       => ~entry.some
                    /\ (/\ {Batch[i].kind, Batch[j].kind} = {"map_insert", "map_remove"}
                        /\ OnlyThese(i, j))
                       => OtherBindings(Target(p, state), Batch[i].id)
                            = OtherBindings(Target(p, Pre), Batch[i].id)

\* map_remove(10) then map_insert(10, "b") on a map binding 10 to "a" and 20 to
\* the default: 10 is bound to "b" and 20 as before.
C10_Witness ==
    /\ last_apply.done
    /\ Batch = <<StateChange("map_remove", map_path, 10, 0),
                 StateChange("map_insert", map_path, 10, "b")>>
    /\ DOMAIN Pre.map = {10, 20} /\ Pre.map[10] = "a"
    /\ DOMAIN state.map = {10, 20}
    /\ state.map[10] = "b" /\ state.map[20] = Pre.map[20]

\* map_insert(10, "b") then map_remove(10): 10 is absent.
C10_WitnessAbsent ==
    /\ last_apply.done
    /\ Batch = <<StateChange("map_insert", map_path, 10, "b"),
                 StateChange("map_remove", map_path, 10, 0)>>
    /\ DOMAIN Pre.map = {10, 20}
    /\ DOMAIN state.map = {20}

\* The step is a call of a read method (one that returned something else than
\* the call before it).
IsRead == returned' # returned

\* What a read method returns for None.
Absent == [panicked |-> FALSE, some |-> FALSE, ref |-> <<>>, value |-> <<>>]

TryMethods == {"try_get", "try_follow", "try_get_any", "try_follow_any"}

\* C11: try_get, try_follow, try_get_any and try_follow_any do not panic; on a
\* path that does not resolve in the current state they return None; and the call
\* leaves the root state and the queue of pending changes as they were.
C11_TryReadsReturnNone ==
    [][(IsRead /\ returned'.method \in TryMethods) =>
          /\ ~returned'.result.panicked
          /\ ~follow(returned'.selector, state).some => returned'.result = Absent
          /\ state' = state
          /\ state_changes' = state_changes]_vars

\* try_get of index 5 into a vector of three items returned None, with a change
\* pending.
C11_Witness ==
    /\ returned.method = "try_get"
    /\ returned.selector = index(items_path, 5)
    /\ returned.result = Absent
    /\ Len(state.items) = 3
    /\ state_changes # <<>>

\* The selector is a path whose last combinator is manually_asserted.
IsAsserted(selector) ==
    Len(selector) > 0 /\ selector[Len(selector)].op = "manually_asserted"

\* C12: manually_asserted wraps any path that is not SAFE, whether it resolves or
\* not; get and follow on the wrapped path panic exactly in the states where the
\* path it wraps does not resolve, and return in all others the reference try_get
\* returns for the path it wraps.
C12_AssertedPanicsWhereInnerFails ==
    [][(/\ IsRead
        /\ returned'.method \in {"get", "follow"}
        /\ IsAsserted(returned'.selector)) =>
          LET asserted == Front(returned'.selector)
          IN  /\ returned'.result.panicked <=> ~follow(asserted, state).some
              /\ ~returned'.result.panicked =>
                    /\ try_get(asserted, state).some
                    /\ returned'.result = try_get(asserted, state)]_vars

\* Index 5 into a vector of three items: try_get returns None, get on the
\* manually asserted path panicked.
C12_Witness ==
    /\ returned.method = "get"
    /\ returned.selector = manually_asserted(index(items_path, 5))
    /\ returned.result.panicked
    /\ Len(state.items) = 3
    /\ try_get(index(items_path, 5), state) = Absent

\* get on a manually asserted lookup that resolves returned the item try_get finds.
C12_WitnessResolved ==
    /\ returned.method = "get"
    /\ returned.selector = manually_asserted(lookup(items_path, 10))
    /\ ~returned.result.panicked
    /\ returned.result.ref = <<Field("items"), Elem(2)>>
    /\ returned.result = try_get(lookup(items_path, 10), state)

\* No combinator of the path is manually_asserted.
Unasserted(p) == \A k \in 1..Len(p) : p[k].op # "manually_asserted"

\* The SAFE paths built without manually_asserted: the root path, field
\* accessors and unboxed / path_as_ref on such paths.
GuaranteedPaths == {p \in Paths : SAFE(p) /\ Unasserted(p)}

\* C13: in every state the Context reaches, whatever was written and applied,
\* every SAFE path built without manually_asserted resolves (follow, follow_mut
\* and select give Some), and no call of get or follow on such a path panicked.
C13_GuaranteedPathsResolve ==
    /\ \A p \in GuaranteedPaths :
          /\ follow(p, state).some
          /\ follow_mut(p, state).some
          /\ select(p, state).some
          /\ ~get(p, state).panicked
          /\ ~context_follow(p, state).panicked
    /\ (/\ returned.method \in {"get", "follow"}
        /\ ~IsValue(returned.selector)
        /\ Unasserted(returned.selector))
       => ~returned.result.panicked /\ returned.result.some

\* After a write through it was applied, and the vector and the option were
\* emptied, get on inner().unboxed().val() returned the value written.
C13_Witness ==
    /\ last_apply.done
    /\ Len(Batch) = 3
    /\ state.items = <<TestItem(20, 1)>>
    /\ state.option = OptionNone
    /\ returned.method = "get"
    /\ returned.selector = field(unboxed(inner_path), "val")
    /\ returned.result.value = <<7>>
    /\ ~returned.result.panicked

\* The combinators whose own step cannot fail: their impl hands on the SAFE of
\* the path they wrap.  All others but manually_asserted give Path<.., false>.
GuaranteedCombinators == {"field", "unboxed", "path_as_ref"}

\* The path was navigated by the latest step of the navigation runs.
Navigated(p) == returned.method = "navigate" /\ returned.selector = p

\* C14: for every path A of k combinators with the combinators B built on it, none
\* of them manually_asserted: the whole is SAFE exactly when A is SAFE and every
\* combinator of B is one whose own step cannot fail.  So SAFE on SAFE is SAFE, and
\* anything with a part that is not SAFE, on either side, is not SAFE; a path
\* ending in manually_asserted is SAFE whatever it wraps.
C14_SafePropagates ==
    returned.method = "navigate" =>
        LET p == returned.selector
        IN  /\ \A k \in 0..Len(p) :
                  (\A i \in (k + 1)..Len(p) : p[i].op # "manually_asserted") =>
                      (returned.result.SAFE <=>
                          /\ SAFE(SubSeq(p, 1, k))
                          /\ \A i \in (k + 1)..Len(p) : p[i].op \in GuaranteedCombinators)
            /\ IsAsserted(p) => returned.result.SAFE /\ ~SAFE(Front(p))

\* A field accessor on a lookup is not SAFE.
C14_Witness ==
    /\ Navigated(field(lookup(items_path, 10), "val"))
    /\ ~returned.result.SAFE
    /\ SAFE(items_path)
    /\ ~SAFE(lookup(items_path, 10))

\* SAFE on SAFE is SAFE.
C14_WitnessSafe ==
    /\ Navigated(field(path_as_ref(inner_path), "val"))
    /\ returned.result.SAFE

\* A lookup on a SAFE path is not SAFE, and manually_asserted on it is.
C14_WitnessAsserted ==
    /\ Navigated(field(manually_asserted(lookup(items_path, 10)), "val"))
    /\ returned.result.SAFE

\* The selector is a path whose last combinator is unboxed.
IsUnboxed(selector) == Len(selector) > 0 /\ selector[Len(selector)].op = "unboxed"

\* C15 as stated: unboxed gives a SAFE path, whose own step does not fail, on
\* every path to a Box, a path that is not SAFE included.
C15_UnboxedAlwaysSafe ==
    (returned.method = "navigate" /\ IsUnboxed(returned.selector)) =>
        /\ returned.result.SAFE
        /\ follow(Front(returned.selector), state).some => returned.result.follow.some

\* C15, amended: unboxed hands on the SAFE of the path it wraps (SAFE on a SAFE
\* path, not SAFE on a path that is not), and its own step does not fail: the
\* unboxed path resolves exactly when the path it wraps does, to what the Box
\* found there points to.
C15_UnboxedHandsSafeOn ==
    (returned.method = "navigate" /\ IsUnboxed(returned.selector)) =>
        LET boxed == Front(returned.selector)
            pointee(opt) == IF opt.some THEN Some(Append(opt.ref, Pointee)) ELSE None
        IN  /\ returned.result.SAFE <=> SAFE(boxed)
            /\ returned.result.follow = pointee(follow(boxed, state))
            /\ returned.result.follow_mut = pointee(follow_mut(boxed, state))
            /\ returned.result.select = pointee(follow(boxed, state))

\* unboxed on option().unwrapped(), which is not SAFE, is not SAFE; the option is
\* Some and the path resolves to what the Box in it points to.
C15_Witness ==
    /\ Navigated(unboxed(unwrapped(option_path)))
    /\ ~returned.result.SAFE
    /\ state.option # OptionNone
    /\ returned.result.follow = Some(<<Field("option"), Payload, Pointee>>)

\* unboxed on inner(), which is SAFE, is SAFE.
C15_WitnessSafe ==
    /\ Navigated(unboxed(inner_path))
    /\ returned.result.SAFE
    /\ returned.result.follow = Some(<<Field("inner"), Pointee>>)

\* C16: for every path built from the combinators and every state, follow and
\* follow_mut both give Some or both give None, and where they give Some the
\* two references designate the same place.
C16_FollowMutAgrees ==
    returned.method = "navigate" =>
        /\ returned.result.follow.some <=> returned.result.follow_mut.some
        /\ returned.result.follow.ref = returned.result.follow_mut.ref

\* A field of the item a lookup finds, in a vector with two items of the id:
\* both lead to the first of the two.
C16_Witness ==
    /\ Navigated(field(lookup(items_path, 10), "val"))
    /\ Len(state.items) = 3
    /\ state.items[2].id = 10 /\ state.items[3].id = 10
    /\ returned.result.follow = Some(<<Field("items"), Elem(2), Field("val")>>)
    /\ returned.result.follow_mut = Some(<<Field("items"), Elem(2), Field("val")>>)

\* A downcast to the type the Box<dyn Any> does not hold: both give None.
C16_WitnessNone ==
    /\ Navigated(downcast(dynamic_path, "TestItem"))
    /\ state.dynamic[2] = "Inner"
    /\ returned.result.follow = None
    /\ returned.result.follow_mut = None

\* C17: for every path and every state, select gives what follow gives, the same
\* Some or None and the same place; so get and try_get, which call select, return
\* what follow, try_follow, try_get_any and try_follow_any, which call follow,
\* return.
C17_SelectIsFollow ==
    returned.method = "navigate" =>
        LET p == returned.selector
        IN  /\ returned.result.select = returned.result.follow
            /\ get(p, state) = context_follow(p, state)
            /\ try_get(p, state) = try_follow(p, state)
            /\ try_get(p, state) = try_get_any(p, state)
            /\ try_get(p, state) = try_follow_any(p, state)

\* A manually asserted lookup in a vector with two items of the id: select, through
\* ManuallyAsserted::select and VecLookup::select, and follow find the first.
C17_Witness ==
    /\ Navigated(manually_asserted(lookup(items_path, 10)))
    /\ Len(state.items) = 3
    /\ state.items[2].id = 10 /\ state.items[3].id = 10
    /\ returned.result.select = Some(<<Field("items"), Elem(2)>>)
    /\ returned.result.follow = Some(<<Field("items"), Elem(2)>>)
    /\ get(returned.selector, state).value = <<TestItem(10, 2)>>

RECURSIVE FollowFrom(_, _, _)
\* The combinators of a chain navigated one after the other (follow) from the
\* place loc: the chain as a path from the value at loc.
FollowFrom(chain, s, loc) ==
    IF chain = <<>> THEN Some(loc)
    ELSE LET next == FollowStep(Head(chain), s, loc)
         IN  IF next.some THEN FollowFrom(Tail(chain), s, next.ref) ELSE None

RECURSIVE FollowMutFrom(_, _, _)
\* The same with follow_mut.
FollowMutFrom(chain, s, loc) ==
    IF chain = <<>> THEN Some(loc)
    ELSE LET next == FollowMutStep(Head(chain), s, loc)
         IN  IF next.some THEN FollowMutFrom(Tail(chain), s, next.ref) ELSE None

\* C18: the root path resolves, by follow, follow_mut and select, to the whole
\* root state; and a chain of combinators built on the root path leads where the
\* chain alone leads from the root state.
C18_RootIsIdentity ==
    returned.method = "navigate" =>
        LET A == returned.selector
        IN  /\ follow(path, state) = Some(<<>>)
            /\ follow_mut(path, state) = Some(<<>>)
            /\ select(path, state) = Some(<<>>)
            /\ ReadAt(state, follow(path, state).ref) = state
            /\ A = path => /\ returned.result.follow = Some(<<>>)
                           /\ returned.result.follow_mut = Some(<<>>)
                           /\ returned.result.select = Some(<<>>)
            /\ returned.result.follow = FollowFrom(A, state, <<>>)
            /\ returned.result.follow_mut = FollowMutFrom(A, state, <<>>)

\* The root path was navigated.
C18_Witness ==
    /\ Navigated(path)
    /\ returned.result.follow = Some(<<>>)
    /\ get(path, state).value = <<state>>

\* A chain on the root path was navigated.
C18_WitnessChain ==
    /\ Navigated(field(unboxed(unwrapped(option_path)), "val"))
    /\ returned.result.follow = Some(<<Field("option"), Payload, Pointee, Field("val")>>)

\* The chain navigated (follow) from where an earlier navigation led.
Then(opt, chain, s) == IF opt.some THEN FollowFrom(chain, s, opt.ref) ELSE None

\* The same with follow_mut.
ThenMut(opt, chain, s) == IF opt.some THEN FollowMutFrom(chain, s, opt.ref) ELSE None

\* C19: for every way of cutting a path into three chains A, B and C: following
\* A on to B, and from there C, leads where following A, and from there B on to
\* C, leads, and that is where the whole path leads; for follow and follow_mut.
C19_CompositionAssociative ==
    returned.method = "navigate" =>
        LET p == returned.selector
        IN  \A i \in 0..Len(p) : \A j \in i..Len(p) :
                LET A == SubSeq(p, 1, i)
                    B == SubSeq(p, i + 1, j)
                    C == SubSeq(p, j + 1, Len(p))
                IN  /\ Then(follow(A \o B, state), C, state)
                         = Then(follow(A, state), B \o C, state)
                    /\ returned.result.follow = Then(follow(A \o B, state), C, state)
                    /\ ThenMut(follow_mut(A \o B, state), C, state)
                         = ThenMut(follow_mut(A, state), B \o C, state)
                    /\ returned.result.follow_mut
                         = ThenMut(follow_mut(A \o B, state), C, state)

\* A path of four combinators that resolves was navigated.
C19_Witness ==
    /\ Navigated(field(unboxed(unwrapped(option_path)), "val"))
    /\ returned.result.follow.some
    /\ Then(follow(option_path, state), <<unwrapped(path)[1], unboxed(path)[1]>>, state)
         = Some(<<Field("option"), Payload, Pointee>>)

\* A path whose second combinator fails was navigated: every grouping gives None.
C19_WitnessNone ==
    /\ Navigated(field(lookup(items_path, 20), "val"))
    /\ state.items = <<TestItem(10, 1)>>
    /\ returned.result.follow = None

\* What get returns for a plain value v used as a selector: a reference to the
\* selector itself.
Itself(v) == [panicked |-> FALSE, some |-> TRUE, ref |-> <<Self(v)>>, value |-> <<v>>]

\* C20: a plain value used as a selector selects itself: in every state the
\* Context reaches, whatever was written and applied, get with the value returns
\* a reference to that value and does not panic; the root state has no part in
\* the result.
C20_ValueSelectsItself ==
    /\ \A v \in {0, 1, state.value} :
          /\ select(Value(v), state) = Some(<<Self(v)>>)
          /\ get(Value(v), state) = Itself(v)
    /\ (returned.method = "get" /\ IsValue(returned.selector))
       => returned.result = Itself(returned.selector[1].arg)

\* get with the value 1 returned 1, on a state that holds another value, with
\* changes applied and a change pending.
C20_Witness ==
    /\ returned.method = "get"
    /\ returned.selector = Value(1)
    /\ returned.result.value = <<1>>
    /\ returned.result.ref = <<Self(1)>>
    /\ state.value = 5
    /\ last_apply.done /\ Batch # <<>>
    /\ state_changes # <<>>

\* The last combinator of a path that has one.
Outermost(p) == p[Len(p)]

\* What a navigation that resolves to the element at position i (from 0) of the
\* sequence at place loc gives.
ElementAt(loc, i) == Some(Append(loc, Elem(i + 1)))

\* C21: index on a Vec and array_index on an array, over a path that resolves,
\* give None exactly when the index is not below the length the sequence has in
\* the state navigated (N for the array), and otherwise resolve to the element at
\* that position; for follow, follow_mut and select.
C21_IndexInBounds ==
    (/\ returned.method = "navigate"
     /\ returned.selector # path
     /\ Outermost(returned.selector).op \in {"vec_index", "array_index"}
     /\ follow(Front(returned.selector), state).some) =>
        LET inner == follow(Front(returned.selector), state).ref
            sequence == ReadAt(state, inner)
            i == Outermost(returned.selector).arg
            expected == IF i < Len(sequence) THEN ElementAt(inner, i) ELSE None
        IN  /\ Outermost(returned.selector).op = "array_index" => Len(sequence) = N
            /\ returned.result.follow = expected
            /\ returned.result.follow_mut = expected
            /\ returned.result.select = expected
            /\ i < Len(sequence) =>
                  ReadAt(state, returned.result.follow.ref) = sequence[i + 1]

\* Index 0 into a vector of three items resolved to the first of them.
C21_Witness ==
    /\ Navigated(index(items_path, 0))
    /\ Len(state.items) = 3
    /\ returned.result.follow = Some(<<Field("items"), Elem(1)>>)
    /\ try_get(returned.selector, state).value = <<TestItem(20, 1)>>

\* Index 0 into an empty vector and index 5 into one of three items: None.
C21_WitnessOutOfBounds ==
    /\ returned.method = "navigate"
    /\ \/ returned.selector = index(items_path, 0) /\ state.items = <<>>
       \/ returned.selector = index(items_path, 5) /\ Len(state.items) = 3
    /\ returned.result.follow = None

\* array_index(N) gives None, array_index(1) the second element.
C21_WitnessArray ==
    /\ returned.method = "navigate"
    /\ \/ returned.selector = array_index(array_path, N) /\ returned.result.follow = None
       \/ /\ returned.selector = array_index(array_path, 1)
          /\ returned.result.follow = Some(<<Field("array"), Elem(2)>>)

\* The slots of a vector whose item has the identity id.
SlotsOf(vec, id) == {k \in 1..Len(vec) : vec[k].id = id}

\* C22: lookup(id) on a Vec, over a path that resolves, gives None exactly when
\* no item of the vector has the identity id, and otherwise resolves to an item
\* of the vector whose get_id() is id; for follow, follow_mut and select.
C22_LookupByIdentity ==
    (/\ returned.method = "navigate"
     /\ returned.selector # path
     /\ Outermost(returned.selector).op = "vec_lookup"
     /\ follow(Front(returned.selector), state).some) =>
        LET inner == follow(Front(returned.selector), state).ref
            vec == ReadAt(state, inner)
            id == Outermost(returned.selector).arg
        IN  \A result \in {returned.result.follow, returned.result.follow_mut,
                           returned.result.select} :
                /\ ~result.some <=> SlotsOf(vec, id) = {}
                /\ result.some =>
                      /\ \E k \in SlotsOf(vec, id) : result.ref = Append(inner, Elem(k))
                      /\ ReadAt(state, result.ref).id = id

\* lookup(10) in a vector that starts with an item of identity 20 resolved to an
\* item of identity 10.
C22_Witness ==
    /\ Navigated(lookup(items_path, 10))
    /\ Len(state.items) = 3
    /\ state.items[1].id = 20
    /\ returned.result.follow.some
    /\ ReadAt(state, returned.result.follow.ref).id = 10

\* lookup(20) in a vector whose only item has identity 10: None.
C22_WitnessAbsent ==
    /\ Navigated(lookup(items_path, 20))
    /\ state.items = <<TestItem(10, 1)>>
    /\ returned.result.follow = None
    /\ returned.result.select = None

\* The kinds of change that bind a key of a map, and the one that unbinds it.
MapBindingKinds == {"map_insert", "map_insert_default"}

\* No change of the batch after the j-th binds or unbinds the key of the j-th.
LastOnKey(j) ==
    \A k \in (j + 1)..Len(Batch) :
        ~(/\ Batch[k].kind \in MapBindingKinds \cup {"map_remove"}
          /\ Batch[k].path = Batch[j].path
          /\ Batch[k].id = Batch[j].id)

\* C23: in every state, lookup(key) on the map gives None exactly when the key
\* is absent from the map as it is then, and otherwise resolves to the value
\* bound to the key (follow, follow_mut and select alike); an applied map_insert
\* or map_insert_default of a key makes its lookup resolve, an applied map_remove
\* makes it give None, in the state the change leaves and, when it is the last
\* change of the batch on the key, in the state apply() leaves.
C23_MapLookupByKey ==
    /\ \A key \in LookupKeys :
          LET p == map_lookup(map_path, key)
              expected == IF key \in DOMAIN state.map
                          THEN Some(<<Field("map"), Entry(key)>>) ELSE None
          IN  /\ follow(p, state) = expected
              /\ follow_mut(p, state) = expected
              /\ select(p, state) = expected
              /\ try_get(p, state).some <=> key \in DOMAIN state.map
              /\ key \in DOMAIN state.map =>
                    try_get(p, state).value = <<state.map[key]>>
    /\ last_apply.done =>
          \A j \in 1..Len(Batch) :
              (/\ Batch[j].kind \in MapBindingKinds \cup {"map_remove"}
               /\ ~FailedAt(j)) =>
                  LET p == map_lookup(Batch[j].path, Batch[j].id)
                      bound == Batch[j].kind \in MapBindingKinds
                  IN  /\ try_get(p, StatesOf(Batch, Pre)[j]).some <=> bound
                      /\ LastOnKey(j) => (try_get(p, state).some <=> bound)

\* Key 20 was absent, map_insert_default(20) was applied: lookup(20) resolves to
\* the default value.
C23_Witness ==
    /\ last_apply.done
    /\ 20 \notin DOMAIN Pre.map
    /\ ~try_get(map_lookup(map_path, 20), Pre).some
    /\ \E j \in 1..Len(Batch) : Batch[j].kind = "map_insert_default" /\ Batch[j].id = 20
    /\ try_get(map_lookup(map_path, 20), state).value = <<MapValueDefault>>

\* Key 10 was bound, map_remove(10) was applied: lookup(10) gives None.
C23_WitnessRemoved ==
    /\ last_apply.done
    /\ try_get(map_lookup(map_path, 10), Pre).some
    /\ \E j \in 1..Len(Batch) : Batch[j].kind = "map_remove" /\ LastOnKey(j)
    /\ follow(map_lookup(map_path, 10), state) = None

\* Key 10 was absent, map_insert(10, "b") was applied: lookup(10) resolves to "b".
C23_WitnessInserted ==
    /\ last_apply.done
    /\ ~try_get(map_lookup(map_path, 10), Pre).some
    /\ \E j \in 1..Len(Batch) : Batch[j].kind = "map_insert" /\ LastOnKey(j)
    /\ try_get(map_lookup(map_path, 10), state).value = <<"b">>

\* Every change of the batch through the vector at items_path is a vec_push or a
\* vec_remove of another identity than id.
OnlyOtherIds(id) ==
    \A k \in 1..Len(Batch) :
        RootField(Batch[k].path) = RootField(items_path) =>
            /\ Batch[k].path = items_path
            /\ \/ Batch[k].kind = "vec_push" /\ Batch[k].value.id # id
               \/ Batch[k].kind = "vec_remove" /\ Batch[k].id # id

\* C25: when one item of the vector has identity id and the batch only pushes
\* and removes items of other identities, lookup(id) resolves to that same item
\* in the state every change of the batch leaves, wherever the item then is.
C25_LookupStable ==
    last_apply.done =>
        \A id \in LookupIds :
            (/\ Cardinality(SlotsOf(Pre.items, id)) = 1
             /\ OnlyOtherIds(id)) =>
                LET p == lookup(items_path, id)
                    element == Target(p, Pre)
                IN  /\ \A k \in 0..Len(Batch) :
                          LET s == StatesOf(Batch, Pre)[k]
                          IN  /\ try_get(p, s).value = <<element>>
                              /\ try_get_any(p, s).value = <<element>>
                              /\ follow_mut(p, s).some
                              /\ ReadAt(s, follow_mut(p, s).ref) = element
                    /\ try_get(p, state).value = <<element>>

\* vec_remove(10) moved the item of identity 20 from the second slot to the first:
\* lookup(20) resolves to it before and after.
C25_Witness ==
    /\ last_apply.done
    /\ Pre.items = <<TestItem(10, 1), TestItem(20, 2)>>
    /\ Batch = <<StateChange("vec_remove", items_path, 10, 0)>>
    /\ follow(lookup(items_path, 20), Pre) = Some(<<Field("items"), Elem(2)>>)
    /\ follow(lookup(items_path, 20), state) = Some(<<Field("items"), Elem(1)>>)
    /\ try_get(lookup(items_path, 20), state).value = <<TestItem(20, 2)>>
    /\ try_get(lookup(items_path, 20), Pre).value = <<TestItem(20, 2)>>

\* In the same run index(0) resolves to the item of identity 10 before and to the
\* item of identity 20 after, and index(1) to the item of identity 20 and to None.
C25_WitnessIndexMoves ==
    /\ last_apply.done
    /\ Pre.items = <<TestItem(10, 1), TestItem(20, 2)>>
    /\ Batch = <<StateChange("vec_remove", items_path, 10, 0)>>
    /\ try_get_any(index(items_path, 0), Pre).value = <<TestItem(10, 1)>>
    /\ try_get_any(index(items_path, 0), state).value = <<TestItem(20, 2)>>
    /\ try_get_any(index(items_path, 1), Pre).value = <<TestItem(20, 2)>>
    /\ ~try_get_any(index(items_path, 1), state).some

\* The lowest slot of a vector whose item has the identity id (there is one).
FirstSlotOf(vec, id) == CHOOSE k \in SlotsOf(vec, id) : \A j \in SlotsOf(vec, id) : k <= j

\* C29: (a) vec_push appends its item whether or not the vector has an item of
\* that identity; (b) in a vector with several items of identity id, lookup(id)
\* resolves to the lowest slot that has one, for follow, follow_mut and select;
\* (c) update_value through lookup(id) then changes the item of that slot and no
\* other; (d) vec_remove(id) leaves no item of identity id.
C29_DuplicateIdentities ==
    last_apply.done =>
        \A j \in 1..Len(Batch) :
            LET before == StatesOf(Batch, Pre)[j - 1]
                after == StatesOf(Batch, Pre)[j]
                change == Batch[j]
            IN  /\ (change.kind = "vec_push" /\ change.path = items_path) =>
                      after.items = Append(before.items, change.value)
                /\ \A id \in LookupIds :
                      Cardinality(SlotsOf(after.items, id)) > 1 =>
                          LET first == Some(<<Field("items"),
                                              Elem(FirstSlotOf(after.items, id))>>)
                          IN  /\ follow(lookup(items_path, id), after) = first
                              /\ follow_mut(lookup(items_path, id), after) = first
                              /\ select(lookup(items_path, id), after) = first
                /\ \A id \in LookupIds :
                      (/\ change.kind = "update_value"
                       /\ change.path = field(lookup(items_path, id), "val")
                       /\ Cardinality(SlotsOf(before.items, id)) > 1) =>
                          /\ Len(after.items) = Len(before.items)
                          /\ \A k \in 1..Len(before.items) :
                                after.items[k] =
                                    IF k = FirstSlotOf(before.items, id)
                                    THEN TestItem(id, change.value)
                                    ELSE before.items[k]
                /\ (change.kind = "vec_remove" /\ change.path = items_path) =>
                      /\ SlotsOf(after.items, change.id) = {}
                      /\ ~follow(lookup(items_path, change.id), after).some

\* An item of identity 10 was pushed to a vector that had one, update_value
\* through lookup(10) changed the first of the two only.
C29_Witness ==
    /\ last_apply.done
    /\ Pre.items = <<TestItem(10, 1)>>
    /\ Batch = <<StateChange("vec_push", items_path, 0, TestItem(10, 2)),
                 StateChange("update_value", field(lookup(items_path, 10), "val"), 0, 7)>>
    /\ state.items = <<TestItem(10, 7), TestItem(10, 2)>>

\* vec_remove(10) removed both items of identity 10.
C29_WitnessRemoved ==
    /\ last_apply.done
    /\ Cardinality(SlotsOf(Pre.items, 10)) = 2
    /\ Batch = <<StateChange("vec_remove", items_path, 10, 0)>>
    /\ SlotsOf(state.items, 10) = {}
    /\ Len(state.items) = Len(Pre.items) - 2

\* What a read method returns for a selector in root state s.
ReadResult(method, selector, s) ==
    CASE method = "get" -> get(selector, s)
      [] method = "try_get" -> try_get(selector, s)
      [] method = "try_get_any" -> try_get_any(selector, s)
      [] method = "follow" -> context_follow(selector, s)
      [] method = "try_follow" -> try_follow(selector, s)
      [] method = "try_follow_any" -> try_follow_any(selector, s)

\* C26: the root state changes in apply() steps only, to what the pending changes
\* give one after the other; a call of a read method leaves the root state and
\* the queue of pending changes (items and order) as they were and returns what
\* the method computes from the root state alone; no step other than apply()
\* changes the root state, so a read repeated with no apply() between returns
\* the same.
C26_ReadsChangeNothing ==
    [][/\ state' # state =>
             /\ last_apply' = [done |-> TRUE, pre |-> state, queue |-> state_changes]
             /\ state' = Sequential(state_changes, state)
             /\ state_changes' = <<>>
       /\ IsRead =>
             /\ state' = state
             /\ state_changes' = state_changes
             /\ returned'.result =
                   ReadResult(returned'.method, returned'.selector, state')
       /\ last_apply' = last_apply => state' = state]_vars

\* A read was called after an apply() that changed the state, with a change
\* pending that would change what it returns: it returned what the state has.
C26_Witness ==
    /\ last_apply.done
    /\ Pre # state
    /\ state_changes = <<StateChange("update_value", field(unboxed(inner_path), "val"), 0, 7)>>
    /\ returned.method = "try_get_any"
    /\ returned.selector = field(unboxed(inner_path), "val")
    /\ returned.result.value = <<2>>
    /\ returned.result = ReadResult(returned.method, returned.selector, state)

\* C24: in every state unwrapped on the option gives None exactly when the
\* option is None and otherwise resolves to its payload (follow, follow_mut and
\* select alike); an update_value through unwrapped that apply() reaches while
\* the option is None changes nothing, the option stays None, and one that finds
\* it Some replaces the payload.
C24_UnwrappedOfNone ==
    /\ LET p == unwrapped(option_path)
           expected == IF state.option = OptionNone
                       THEN None ELSE Some(<<Field("option"), Payload>>)
       IN  /\ follow(p, state) = expected
           /\ follow_mut(p, state) = expected
           /\ select(p, state) = expected
           /\ state.option # OptionNone =>
                 try_get(p, state).value = <<state.option[1]>>
    /\ last_apply.done =>
          \A j \in 1..Len(Batch) :
              (/\ Batch[j].kind = "update_value"
               /\ Batch[j].path = unwrapped(option_path)) =>
                  LET before == StatesOf(Batch, Pre)[j - 1]
                      after == StatesOf(Batch, Pre)[j]
                  IN  IF before.option = OptionNone
                      THEN after = before /\ after.option = OptionNone
                      ELSE after.option = OptionSome(Batch[j].value)

\* update_value through unwrapped was applied while the option was None: the
\* option is None and nothing else changed.
C24_Witness ==
    /\ last_apply.done
    /\ Pre.option = OptionNone
    /\ Len(Batch) = 1
    /\ Batch[1].kind = "update_value"
    /\ Batch[1].path = unwrapped(option_path)
    /\ state.option = OptionNone
    /\ state = Pre
    /\ ~try_get(unwrapped(option_path), state).some

\* The same write while the option was Some replaced the payload.
C24_WitnessSome ==
    /\ last_apply.done
    /\ Pre.option = OptionSome(Box(TestItem(10, 1)))
    /\ Len(Batch) = 1
    /\ Batch[1].kind = "update_value"
    /\ Batch[1].path = unwrapped(option_path)
    /\ state.option = OptionSome(Box(TestItem(30, 3)))
    /\ try_get(unwrapped(option_path), state).value = <<Box(TestItem(30, 3))>>

\* The path of the writing runs that is SAFE by manually_asserted.
asserted_val_path == field(manually_asserted(lookup(items_path, 10)), "val")

\* C27: apply() always runs the whole queue: a change whose path does not resolve
\* when its turn comes changes nothing, whether its path is SAFE or not, and the
\* changes queued after it are applied as if it had not been queued.
C27_ApplySurvivesFailedSafePath ==
    last_apply.done =>
        /\ state = Sequential(Batch, Pre)
        /\ \A j \in 1..Len(Batch) :
              FailedAt(j) =>
                  /\ StatesOf(Batch, Pre)[j] = StatesOf(Batch, Pre)[j - 1]
                  /\ state = Sequential(Without(Batch, j), Pre)

\* vec_remove(10), then update_value through the asserted lookup(10), then
\* vec_push: the update found nothing and the push after it was applied.
C27_Witness ==
    /\ last_apply.done
    /\ Len(Batch) = 3
    /\ Batch[1].kind = "vec_remove"
    /\ Batch[2].kind = "update_value"
    /\ Batch[2].path = asserted_val_path
    /\ SAFE(Batch[2].path)
    /\ Batch[3].kind = "vec_push"
    /\ try_get_any(lookup(items_path, 10), Pre).some
    /\ FailedAt(2)
    /\ state.items = <<TestItem(20, 1), TestItem(30, 1)>>

\* A change on the unwrapped option and one on the asserted lookup both found
\* nothing in the same batch; the state is as it was.
C27_WitnessBoth ==
    /\ last_apply.done
    /\ Len(Batch) = 2
    /\ {Batch[1].path, Batch[2].path} = {unwrapped(option_path), asserted_val_path}
    /\ FailedAt(1) /\ FailedAt(2)
    /\ state = Pre

\* C28: an applied map_insert_default(k) leaves the map as it found it when k was
\* bound, and otherwise binds k to the default value and leaves the other
\* bindings; an applied map_insert(k, v) binds k to v, whether k was bound or
\* not, and leaves the other bindings.
C28_InsertDefaultKeepsValue ==
    last_apply.done =>
        \A j \in 1..Len(Batch) :
            (Batch[j].kind \in MapBindingKinds /\ ~FailedAt(j)) =>
                LET p == Batch[j].path
                    k == Batch[j].id
                    before == Target(p, StatesOf(Batch, Pre)[j - 1])
                    after == Target(p, StatesOf(Batch, Pre)[j])
                IN  /\ DOMAIN after = DOMAIN before \cup {k}
                    /\ OtherBindings(after, k) = OtherBindings(before, k)
                    /\ Batch[j].kind = "map_insert_default" =>
                          IF k \in DOMAIN before
                          THEN after[k] = before[k] /\ after = before
                          ELSE after[k] = MapValueDefault
                    /\ Batch[j].kind = "map_insert" => after[k] = Batch[j].value

\* map_insert_default(10) was applied to a map that bound 10 to "a": still "a".
C28_Witness ==
    /\ last_apply.done
    /\ Len(Batch) = 1
    /\ Batch[1].kind = "map_insert_default" /\ Batch[1].id = 10
    /\ 10 \in DOMAIN Pre.map
    /\ Pre.map[10] = "a"
    /\ state.map[10] = "a"
    /\ "a" # MapValueDefault

\* The same call on a map without 10 bound it to the default value.
C28_WitnessAbsent ==
    /\ last_apply.done
    /\ Len(Batch) = 1
    /\ Batch[1].kind = "map_insert_default" /\ Batch[1].id = 10
    /\ 10 \notin DOMAIN Pre.map
    /\ state.map[10] = MapValueDefault

\* map_insert(10, "b") replaced the binding of 10 to "a".
C28_WitnessReplaced ==
    /\ last_apply.done
    /\ Len(Batch) = 1
    /\ Batch[1].kind = "map_insert" /\ Batch[1].id = 10
    /\ 10 \in DOMAIN Pre.map
    /\ Pre.map[10] = "a"
    /\ state.map[10] = "b"
    /\ state.map[20] = Pre.map[20]

\* The root fields in which two root states differ.
FieldsChanged(before, after) == {f \in DOMAIN before : after[f] # before[f]}

\* The slots in which two vectors of one length differ.
SlotsChanged(before, after) == {k \in 1..Len(before) : after[k] # before[k]}

\* The keys whose binding differs between two maps of one key set.
KeysChanged(before, after) == {k \in DOMAIN before : after[k] # before[k]}

\* The change writes to the val of an item of the vector at items_path.
WritesItemVal(change) ==
    /\ change.kind \in {"update_value", "update_value_with"}
    /\ GoesThrough(change.path, items_path)
    /\ Len(change.path) > Len(items_path)
    /\ Outermost(change.path) = [op |-> "field", name |-> "val", arg |-> 0]

\* C30: an applied change changes the place its path designates and nothing
\* else.  No root field other than the one the path goes through changes.  An
\* update through lookup(id) or index(i) leaves the vector's length and every
\* item other than the one designated, and the designated item's identity; an
\* update through the map lookup(k) leaves the key set and every other binding.
C30_OnlyTheTargetChanges ==
    last_apply.done =>
        \A j \in 1..Len(Batch) :
            LET change == Batch[j]
                before == StatesOf(Batch, Pre)[j - 1]
                after == StatesOf(Batch, Pre)[j]
            IN  /\ DOMAIN after = DOMAIN before
                /\ FieldsChanged(before, after) \subseteq {RootField(change.path)}
                /\ (WritesItemVal(change) /\ ~FailedAt(j)) =>
                      LET item == follow_mut(Front(change.path), before).ref
                          slot == item[Len(item)].n
                      IN  /\ Len(after.items) = Len(before.items)
                          /\ SlotsChanged(before.items, after.items) \subseteq {slot}
                          /\ after.items[slot].id = before.items[slot].id
                /\ (/\ change.kind \in {"update_value", "update_value_with"}
                    /\ GoesThrough(change.path, map_path)
                    /\ ~FailedAt(j)) =>
                      /\ DOMAIN after.map = DOMAIN before.map
                      /\ KeysChanged(before.map, after.map)
                             \subseteq {Outermost(change.path).arg}

\* update_value_with through index(0) doubled the val of the first of three items
\* and update_value through the asserted lookup(10) changed the second; the
\* third item and the other root fields are as they were.
C30_Witness ==
    /\ last_apply.done
    /\ Len(Batch) = 2
    /\ Batch[1].kind = "update_value_with"
    /\ Batch[2].kind = "update_value" /\ Batch[2].path = asserted_val_path
    /\ Pre.items = <<TestItem(20, 1), TestItem(10, 2), TestItem(10, 3)>>
    /\ state.items = <<TestItem(20, 2), TestItem(10, 7), TestItem(10, 3)>>
    /\ FieldsChanged(Pre, state) = {"items"}

\* update_value through the map lookup(10) changed the binding of 10 only.
C30_WitnessMap ==
    /\ last_apply.done
    /\ Len(Batch) = 1
    /\ Batch[1].kind = "update_value" /\ Batch[1].path = map_lookup(map_path, 10)
    /\ DOMAIN Pre.map = {10, 20}
    /\ KeysChanged(Pre.map, state.map) = {10}
    /\ state.map[10] = "c"
    /\ FieldsChanged(Pre, state) = {"map"}

\* vec_push, vec_remove, map_insert and map_remove each changed its collection
\* and no other root field.
C30_WitnessCollections ==
    /\ last_apply.done
    /\ Len(Batch) = 1
    /\ \/ Batch[1].kind \in {"vec_push", "vec_remove"} /\ FieldsChanged(Pre, state) = {"items"}
       \/ Batch[1].kind \in {"map_insert", "map_remove"} /\ FieldsChanged(Pre, state) = {"map"}

====
